---- MODULE Spec2Model ----
(***************************************************************************)
(* memmem() of spritepal/tools/windows_compat.c: the naive byte-substring  *)
(* search used where the C library lacks it.  Each call is a small state   *)
(* machine over its locals; the buffers live in a memory the calls share.  *)
(***************************************************************************)
EXTENDS Integers, Sequences, FiniteSets, TLC

\* ---------------------------------------------------------------- bounds
MaxLen   == 3      \* longest buffer, in bytes
MaxWidth == 2      \* size_t is 1..MaxWidth bits wide
MaxCalls == 2      \* calls made in one run

Byte   == {0, 1}              \* two byte values tell equal from different
Bufs   == {"A", "B"}          \* the caller-owned buffers
Calls  == {"c1", "c2"}        \* the callers (threads)

VARIABLES
    width,          \* bits of size_t on the platform
    mem,            \* buffer -> its bytes
    haystack, haystack_len, needle, needle_len,   \* the arguments of each call
    h, n, i,        \* the locals of each call
    pc,             \* where each call stands
    ret,            \* the value each call returned
    examined,       \* history: the start positions handed to memcmp, in order
    oob,            \* history: a byte outside a buffer was read
    wrap,           \* history: a size_t operation wrapped around
    log,            \* history: the (arguments, result) of the calls that returned
    ncalls          \* calls made so far

vars == <<width, mem, haystack, haystack_len, needle, needle_len, h, n, i,
          pc, ret, examined, oob, wrap, log, ncalls>>

\* ------------------------------------------------------------ size_t, pointers
RECURSIVE Pow2(_)
Pow2(k) == IF k = 0 THEN 1 ELSE 2 * Pow2(k - 1)

Modulus == Pow2(width)
SizeT   == 0..(Modulus - 1)

\* a - b and a + 1 in size_t
SizeSub(a, b) == (a - b) % Modulus
SizeInc(a)    == (a + 1) % Modulus

Ptr(b, k)    == [buf |-> b, off |-> k]
NULL         == Ptr("null", 0)
PtrAdd(p, k) == Ptr(p.buf, p.off + k)

\* the len bytes at p lie inside p's buffer
InBounds(p, len) == p.buf \in Bufs /\ p.off >= 0 /\ p.off + len <= Len(mem[p.buf])

\* memcmp: the sign of the first differing byte pair, 0 when all len agree
RECURSIVE MemCmpFrom(_, _, _, _)
MemCmpFrom(p, q, len, k) ==
    IF k = len THEN 0
    ELSE LET a == mem[p.buf][p.off + k + 1]
             b == mem[q.buf][q.off + k + 1]
         IN  IF a < b THEN -1 ELSE IF a > b THEN 1 ELSE MemCmpFrom(p, q, len, k + 1)

\* what memcmp may return: reading outside a buffer is undefined, any result
MemCmp(p, q, len) ==
    IF InBounds(p, len) /\ InBounds(q, len) THEN {MemCmpFrom(p, q, len, 0)}
    ELSE {-1, 0, 1}

\* a bug: i has static storage, one object for all calls
SlotStatic(t) == "c1"

\* the storage of a call's automatic variable i: one per call
Slot(t) == t

\* size_t i; holds no value until assigned: a read of it may give any value
Indeterminate == [def |-> FALSE, val |-> 0]
Assigned(v)   == [def |-> TRUE, val |-> v]
Value(x)      == IF x.def THEN {x.val} ELSE SizeT

\* ------------------------------------------------------------------ Init
BufValues == UNION {[1..k -> Byte] : k \in 0..MaxLen}

Init ==
    /\ width \in 1..MaxWidth
    /\ mem \in [Bufs -> {s \in BufValues : Len(s) < Pow2(width)}]
    /\ haystack = [t \in Calls |-> NULL]
    /\ haystack_len = [t \in Calls |-> 0]
    /\ needle = [t \in Calls |-> NULL]
    /\ needle_len = [t \in Calls |-> 0]
    /\ h = [t \in Calls |-> NULL]
    /\ n = [t \in Calls |-> NULL]
    /\ i = [t \in Calls |-> Indeterminate]
    /\ pc = [t \in Calls |-> "idle"]
    /\ ret = [t \in Calls |-> NULL]
    /\ examined = [t \in Calls |-> <<>>]
    /\ oob = [t \in Calls |-> FALSE]
    /\ wrap = [t \in Calls |-> FALSE]
    /\ log = {}
    /\ ncalls = 0

\* --------------------------------------------------------------- actions
\* the caller enters memmem(hb, len(hb), nb, len(nb)); i is not initialised
Call(t) ==
    /\ pc[t] = "idle"
    /\ ncalls < MaxCalls
    /\ \E hb \in Bufs, nb \in Bufs :
        /\ haystack' = [haystack EXCEPT ![t] = Ptr(hb, 0)]
        /\ haystack_len' = [haystack_len EXCEPT ![t] = Len(mem[hb])]
        /\ needle' = [needle EXCEPT ![t] = Ptr(nb, 0)]
        /\ needle_len' = [needle_len EXCEPT ![t] = Len(mem[nb])]
        /\ h' = [h EXCEPT ![t] = Ptr(hb, 0)]
        /\ n' = [n EXCEPT ![t] = Ptr(nb, 0)]
        /\ i' = [i EXCEPT ![Slot(t)] = Indeterminate]
    /\ pc' = [pc EXCEPT ![t] = "L13"]
    /\ examined' = [examined EXCEPT ![t] = <<>>]
    /\ oob' = [oob EXCEPT ![t] = FALSE]
    /\ wrap' = [wrap EXCEPT ![t] = FALSE]
    /\ ncalls' = ncalls + 1
    /\ UNCHANGED <<width, mem, ret, log>>

\* a bug: the empty needle is reported as not found
CheckEmptyNull(t) ==
    /\ pc[t] = "L13"
    /\ IF needle_len[t] = 0
       THEN /\ ret' = [ret EXCEPT ![t] = NULL]
            /\ pc' = [pc EXCEPT ![t] = "done"]
       ELSE /\ pc' = [pc EXCEPT ![t] = "L16"]
            /\ UNCHANGED ret
    /\ UNCHANGED <<width, mem, haystack, haystack_len, needle, needle_len, h, n, i,
                   examined, oob, wrap, log, ncalls>>

\* if (needle_len == 0) return (void *)haystack;
CheckEmpty(t) ==
    /\ pc[t] = "L13"
    /\ IF needle_len[t] = 0
       THEN /\ ret' = [ret EXCEPT ![t] = haystack[t]]
            /\ pc' = [pc EXCEPT ![t] = "done"]
       ELSE /\ pc' = [pc EXCEPT ![t] = "L16"]
            /\ UNCHANGED ret
    /\ UNCHANGED <<width, mem, haystack, haystack_len, needle, needle_len, h, n, i,
                   examined, oob, wrap, log, ncalls>>

\* a bug: the length check is left out
CheckShortMissing(t) ==
    /\ pc[t] = "L16"
    /\ pc' = [pc EXCEPT ![t] = "L19init"]
    /\ UNCHANGED ret
    /\ UNCHANGED <<width, mem, haystack, haystack_len, needle, needle_len, h, n, i,
                   examined, oob, wrap, log, ncalls>>

\* if (haystack_len < needle_len) return NULL;
CheckShort(t) ==
    /\ pc[t] = "L16"
    /\ IF haystack_len[t] < needle_len[t]
       THEN /\ ret' = [ret EXCEPT ![t] = NULL]
            /\ pc' = [pc EXCEPT ![t] = "done"]
       ELSE /\ pc' = [pc EXCEPT ![t] = "L19init"]
            /\ UNCHANGED ret
    /\ UNCHANGED <<width, mem, haystack, haystack_len, needle, needle_len, h, n, i,
                   examined, oob, wrap, log, ncalls>>

\* a bug: the scan starts at 1
LoopInitOne(t) ==
    /\ pc[t] = "L19init"
    /\ i' = [i EXCEPT ![Slot(t)] = Assigned(1)]
    /\ pc' = [pc EXCEPT ![t] = "L19"]
    /\ UNCHANGED <<width, mem, haystack, haystack_len, needle, needle_len, h, n,
                   ret, examined, oob, wrap, log, ncalls>>

\* a bug: for (; ...), i is never assigned
LoopInitSkip(t) ==
    /\ pc[t] = "L19init"
    /\ pc' = [pc EXCEPT ![t] = "L19"]
    /\ UNCHANGED <<width, mem, haystack, haystack_len, needle, needle_len, h, n, i,
                   ret, examined, oob, wrap, log, ncalls>>

\* for (i = 0; ...
LoopInit(t) ==
    /\ pc[t] = "L19init"
    /\ i' = [i EXCEPT ![Slot(t)] = Assigned(0)]
    /\ pc' = [pc EXCEPT ![t] = "L19"]
    /\ UNCHANGED <<width, mem, haystack, haystack_len, needle, needle_len, h, n,
                   ret, examined, oob, wrap, log, ncalls>>

\* a bug: i <= haystack_len, the needle's length is not subtracted
LoopTestNoSub(t) ==
    /\ pc[t] = "L19"
    /\ \E v \in Value(i[Slot(t)]) :
         pc' = [pc EXCEPT ![t] = IF v <= haystack_len[t] THEN "L20" ELSE "L24"]
    /\ UNCHANGED <<width, mem, haystack, haystack_len, needle, needle_len, h, n, i,
                   ret, examined, oob, wrap, log, ncalls>>

\* ...; i <= haystack_len - needle_len; ...
LoopTest(t) ==
    /\ pc[t] = "L19"
    /\ \E v \in Value(i[Slot(t)]) :
         pc' = [pc EXCEPT ![t] =
                  IF v <= SizeSub(haystack_len[t], needle_len[t]) THEN "L20" ELSE "L24"]
    /\ wrap' = [wrap EXCEPT ![t] = @ \/ haystack_len[t] < needle_len[t]]
    /\ UNCHANGED <<width, mem, haystack, haystack_len, needle, needle_len, h, n, i,
                   ret, examined, oob, log, ncalls>>

\* a bug: memcmp(h + i, n, needle_len - 1), the last byte is not compared
CompareShort(t) ==
    /\ pc[t] = "L20"
    /\ \E v \in Value(i[Slot(t)]) :
         LET p == PtrAdd(h[t], v)
         IN  /\ examined' = [examined EXCEPT ![t] = Append(@, v)]
             /\ oob' = [oob EXCEPT ![t] =
                          @ \/ ~InBounds(p, needle_len[t]) \/ ~InBounds(n[t], needle_len[t])]
             /\ \E r \in MemCmp(p, n[t], needle_len[t] - 1) :
                  IF r = 0
                  THEN /\ ret' = [ret EXCEPT ![t] = p]
                       /\ pc' = [pc EXCEPT ![t] = "done"]
                  ELSE /\ pc' = [pc EXCEPT ![t] = "L19inc"]
                       /\ UNCHANGED ret
    /\ UNCHANGED <<width, mem, haystack, haystack_len, needle, needle_len, h, n, i,
                   wrap, log, ncalls>>

\* a bug: memcmp(...) != 0, the test is inverted
CompareInverted(t) ==
    /\ pc[t] = "L20"
    /\ \E v \in Value(i[Slot(t)]) :
         LET p == PtrAdd(h[t], v)
         IN  /\ examined' = [examined EXCEPT ![t] = Append(@, v)]
             /\ oob' = [oob EXCEPT ![t] =
                          @ \/ ~InBounds(p, needle_len[t]) \/ ~InBounds(n[t], needle_len[t])]
             /\ \E r \in MemCmp(p, n[t], needle_len[t]) :
                  IF r # 0
                  THEN /\ ret' = [ret EXCEPT ![t] = p]
                       /\ pc' = [pc EXCEPT ![t] = "done"]
                  ELSE /\ pc' = [pc EXCEPT ![t] = "L19inc"]
                       /\ UNCHANGED ret
    /\ UNCHANGED <<width, mem, haystack, haystack_len, needle, needle_len, h, n, i,
                   wrap, log, ncalls>>

\* a bug: memcpy for memcmp, the needle is written over the haystack
CompareClobber(t) ==
    /\ pc[t] = "L20"
    /\ \E v \in Value(i[Slot(t)]) :
         LET p == PtrAdd(h[t], v)
             H == mem[p.buf]
             N == mem[n[t].buf]
         IN  /\ examined' = [examined EXCEPT ![t] = Append(@, v)]
             /\ mem' = [mem EXCEPT ![p.buf] =
                          [k \in 1..Len(H) |->
                             IF k > v /\ k <= v + needle_len[t] /\ k - v <= Len(N)
                             THEN N[k - v] ELSE H[k]]]
             /\ ret' = [ret EXCEPT ![t] = p]
             /\ pc' = [pc EXCEPT ![t] = "done"]
    /\ UNCHANGED <<width, haystack, haystack_len, needle, needle_len, h, n, i,
                   oob, wrap, log, ncalls>>

\* if (memcmp(h + i, n, needle_len) == 0) return (void *)(h + i);
Compare(t) ==
    /\ pc[t] = "L20"
    /\ \E v \in Value(i[Slot(t)]) :
         LET p == PtrAdd(h[t], v)
         IN  /\ examined' = [examined EXCEPT ![t] = Append(@, v)]
             /\ oob' = [oob EXCEPT ![t] =
                          @ \/ ~InBounds(p, needle_len[t]) \/ ~InBounds(n[t], needle_len[t])]
             /\ \E r \in MemCmp(p, n[t], needle_len[t]) :
                  IF r = 0
                  THEN /\ ret' = [ret EXCEPT ![t] = p]
                       /\ pc' = [pc EXCEPT ![t] = "done"]
                  ELSE /\ pc' = [pc EXCEPT ![t] = "L19inc"]
                       /\ UNCHANGED ret
    /\ UNCHANGED <<width, mem, haystack, haystack_len, needle, needle_len, h, n, i,
                   wrap, log, ncalls>>

\* a bug: the increment is left out
LoopIncrMissing(t) ==
    /\ pc[t] = "L19inc"
    /\ pc' = [pc EXCEPT ![t] = "L19"]
    /\ UNCHANGED <<width, mem, haystack, haystack_len, needle, needle_len, h, n, i,
                   ret, examined, oob, wrap, log, ncalls>>

\* ...; i++)
LoopIncr(t) ==
    /\ pc[t] = "L19inc"
    /\ \E v \in Value(i[Slot(t)]) :
         /\ i' = [i EXCEPT ![Slot(t)] = Assigned(SizeInc(v))]
         /\ wrap' = [wrap EXCEPT ![t] = @ \/ v + 1 >= Modulus]
    /\ pc' = [pc EXCEPT ![t] = "L19"]
    /\ UNCHANGED <<width, mem, haystack, haystack_len, needle, needle_len, h, n,
                   ret, examined, oob, log, ncalls>>

\* return NULL;  (after the loop)
ReturnNull(t) ==
    /\ pc[t] = "L24"
    /\ ret' = [ret EXCEPT ![t] = NULL]
    /\ pc' = [pc EXCEPT ![t] = "done"]
    /\ UNCHANGED <<width, mem, haystack, haystack_len, needle, needle_len, h, n, i,
                   examined, oob, wrap, log, ncalls>>

\* the caller takes the result; the call's frame (arguments, locals) is gone
Return(t) ==
    /\ pc[t] = "done"
    /\ log' = log \cup {[haystack |-> haystack[t], haystack_len |-> haystack_len[t],
                         needle |-> needle[t], needle_len |-> needle_len[t],
                         ret |-> ret[t]]}
    /\ pc' = [pc EXCEPT ![t] = "idle"]
    /\ haystack' = [haystack EXCEPT ![t] = NULL]
    /\ haystack_len' = [haystack_len EXCEPT ![t] = 0]
    /\ needle' = [needle EXCEPT ![t] = NULL]
    /\ needle_len' = [needle_len EXCEPT ![t] = 0]
    /\ h' = [h EXCEPT ![t] = NULL]
    /\ n' = [n EXCEPT ![t] = NULL]
    /\ i' = [i EXCEPT ![Slot(t)] = Indeterminate]
    /\ ret' = [ret EXCEPT ![t] = NULL]
    /\ examined' = [examined EXCEPT ![t] = <<>>]
    /\ oob' = [oob EXCEPT ![t] = FALSE]
    /\ wrap' = [wrap EXCEPT ![t] = FALSE]
    /\ UNCHANGED <<width, mem, ncalls>>

\* one step of the body of memmem
Step(t) ==
    \/ CheckEmpty(t) \/ CheckShort(t) \/ LoopInit(t) \/ LoopTest(t)
    \/ Compare(t) \/ LoopIncr(t) \/ ReturnNull(t)

\* a single-threaded program: one caller, its calls made one after another
Main == "c1"

Next == Call(Main) \/ Step(Main) \/ Return(Main)

Spec == Init /\ [][Next]_vars

\* calls made by threads that run at once, their steps interleaved
NextConc == \E t \in Calls : Call(t) \/ Step(t) \/ Return(t)

SpecConc == Init /\ [][NextConc]_vars

\* a call that has been entered keeps running: nothing in it waits
FairSpec == Spec /\ WF_vars(Step(Main))

\* ------------------------------------------------- the function as a whole
\* memmem run alone on the buffers: the values it may return
RECURSIVE Scan(_, _, _, _, _)
Scan(hp, hl, np, nl, k) ==
    IF k <= SizeSub(hl, nl)
    THEN UNION {IF r = 0 THEN {PtrAdd(hp, k)} ELSE Scan(hp, hl, np, nl, SizeInc(k))
                : r \in MemCmp(PtrAdd(hp, k), np, nl)}
    ELSE {NULL}

memmem(hp, hl, np, nl) ==
    IF nl = 0 THEN {hp}
    ELSE IF hl < nl THEN {NULL}
    ELSE Scan(hp, hl, np, nl, 0)

\* ------------------------------------------------------------ the claims
Active(t)  == pc[t] # "idle"
Done(t)    == pc[t] = "done"
InLoop(t)  == pc[t] \in {"L19init", "L19", "L20", "L19inc", "L24"}

\* the bytes the arguments of call t describe
Hay(t) == mem[haystack[t].buf]
Ndl(t) == mem[needle[t].buf]

\* N occurs in H at offset k
MatchAt(H, N, k) == k + Len(N) <= Len(H) /\ SubSeq(H, k + 1, k + Len(N)) = N
Matches(H, N)    == {k \in 0..Len(H) : MatchAt(H, N, k)}
Least(S)         == CHOOSE k \in S : \A m \in S : k <= m

\* C1: a non-empty needle that occurs in the haystack is reported at its
\* leftmost offset, also when the occurrences overlap
C1_LeftmostMatch ==
    \A t \in Calls :
        (Done(t) /\ needle_len[t] >= 1 /\ Matches(Hay(t), Ndl(t)) # {})
            => ret[t] = Ptr(haystack[t].buf, Least(Matches(Hay(t), Ndl(t))))

\* a call returned the first of two occurrences that overlap
C1_Witness ==
    \E t \in Calls :
        /\ Done(t) /\ needle_len[t] >= 2 /\ ret[t] # NULL
        /\ \E k \in Matches(Hay(t), Ndl(t)) :
              k > ret[t].off /\ k < ret[t].off + needle_len[t]

\* C2: a non-empty needle that occurs nowhere in the haystack gives NULL
C2_NoMatchIsNull ==
    \A t \in Calls :
        (Done(t) /\ needle_len[t] >= 1 /\ Matches(Hay(t), Ndl(t)) = {})
            => ret[t] = NULL

\* a scan over every candidate position of a haystack ended with NULL
C2_Witness ==
    \E t \in Calls :
        /\ Done(t) /\ needle_len[t] >= 2 /\ haystack_len[t] > needle_len[t]
        /\ Matches(Hay(t), Ndl(t)) = {} /\ ret[t] = NULL
        /\ Len(examined[t]) = haystack_len[t] - needle_len[t] + 1

\* C3: a position returned for a non-empty needle lies in the haystack at an
\* offset in [0, haystack_len - needle_len] where the needle's bytes stand
C3_NoFalseMatch ==
    \A t \in Calls :
        (Done(t) /\ needle_len[t] >= 1 /\ ret[t] # NULL)
            => /\ ret[t].buf = haystack[t].buf
               /\ ret[t].off >= 0
               /\ ret[t].off <= haystack_len[t] - needle_len[t]
               /\ MatchAt(Hay(t), Ndl(t), ret[t].off)

\* a match was returned after a mismatch at an earlier position
C3_Witness ==
    \E t \in Calls :
        /\ Done(t) /\ needle_len[t] >= 2 /\ ret[t] # NULL
        /\ ret[t].off >= 1
        /\ ret[t].off = haystack_len[t] - needle_len[t]

\* C4: an empty needle gives the start of the haystack, never NULL, whatever
\* the haystack's length; the length check is not reached
C4_EmptyNeedle ==
    \A t \in Calls :
        (Active(t) /\ needle_len[t] = 0)
            => /\ pc[t] \in {"L13", "done"}
               /\ Done(t) => (ret[t] = haystack[t] /\ ret[t] # NULL /\ ret[t].off = 0)

\* an empty needle was searched in an empty haystack
C4_Witness ==
    \E t \in Calls :
        Done(t) /\ needle_len[t] = 0 /\ haystack_len[t] = 0 /\ ret[t] = haystack[t]

\* C5: a needle longer than the haystack gives NULL without entering the
\* scan loop and without a byte comparison
C5_NeedleLonger ==
    \A t \in Calls :
        (Active(t) /\ needle_len[t] > haystack_len[t])
            => /\ pc[t] \in {"L13", "L16", "done"}
               /\ examined[t] = <<>>
               /\ Done(t) => ret[t] = NULL

\* a call with a needle longer than a non-empty haystack returned
C5_Witness ==
    \E t \in Calls :
        Done(t) /\ needle_len[t] > haystack_len[t] /\ haystack_len[t] >= 1
                /\ ret[t] = NULL

\* C6: no step changes a byte or the length of a buffer, and the arguments
\* of a call in progress stay what they were at entry
C6_NoMutation ==
    [][ /\ mem' = mem
        /\ \A t \in Calls :
             (Active(t) /\ pc'[t] # "idle")
                => /\ haystack'[t] = haystack[t] /\ haystack_len'[t] = haystack_len[t]
                   /\ needle'[t] = needle[t] /\ needle_len'[t] = needle_len[t]
                   /\ haystack_len[t] = Len(mem[haystack[t].buf])
                   /\ needle_len[t] = Len(mem[needle[t].buf]) ]_vars

\* a call that compared bytes of a buffer with itself has returned
C6_Witness ==
    \E t \in Calls :
        Done(t) /\ examined[t] # <<>> /\ haystack[t] = needle[t]

StrictlyIncreasing(s) == \A k \in 1..(Len(s) - 1) : s[k] < s[k + 1]

\* the candidate positions of call t
Candidates(t) ==
    IF needle_len[t] = 0 \/ needle_len[t] > haystack_len[t] THEN {}
    ELSE 0..(haystack_len[t] - needle_len[t])

\* C7: a call examines candidate positions only, each at most once and in
\* increasing order (none for an empty or too long needle), and returns
C7_Terminates ==
    /\ [](\A t \in Calls :
            /\ \A k \in 1..Len(examined[t]) : examined[t][k] \in Candidates(t)
            /\ StrictlyIncreasing(examined[t])
            /\ Len(examined[t]) <= Cardinality(Candidates(t)))
    /\ \A t \in Calls : Active(t) ~> Done(t)

\* a call returned after examining every one of at least three candidates
C7_Witness ==
    \E t \in Calls :
        /\ Done(t) /\ Cardinality(Candidates(t)) >= 3
        /\ Len(examined[t]) = Cardinality(Candidates(t))

\* what a caller sees of a result: the offset in the haystack, none for NULL
Seen(hp, r) == IF r = NULL THEN {} ELSE {r.off - hp.off}

SameInput(a, b) ==
    /\ mem[a.haystack.buf] = mem[b.haystack.buf] /\ a.haystack_len = b.haystack_len
    /\ mem[a.needle.buf] = mem[b.needle.buf] /\ a.needle_len = b.needle_len

\* the call of t as a record of the log
Current(t) == [haystack |-> haystack[t], haystack_len |-> haystack_len[t],
               needle |-> needle[t], needle_len |-> needle_len[t], ret |-> ret[t]]

\* C8: calls with the same haystack bytes and needle bytes return the same
\* offset or all not found, whether made earlier or at the same time
C8_Deterministic ==
    LET all == log \cup {Current(t) : t \in {u \in Calls : Done(u)}}
    IN  \A a \in all, b \in all :
            SameInput(a, b) => Seen(a.haystack, a.ret) = Seen(b.haystack, b.ret)

\* a second call with the input of an earlier one found the needle again
C8_Witness ==
    \E t \in Calls, a \in log :
        /\ Done(t) /\ SameInput(a, Current(t))
        /\ needle_len[t] >= 1 /\ ret[t] # NULL /\ ret[t].off >= 1
        /\ Seen(a.haystack, a.ret) = {ret[t].off}

\* C9: a call whose steps are interleaved with those of another call returns
\* exactly what it returns when run alone on the same buffers
C9_Reentrant ==
    \A t \in Calls :
        Done(t) => memmem(haystack[t], haystack_len[t], needle[t], needle_len[t]) = {ret[t]}

\* two calls scan the same haystack at once, one has returned a match
C9_Witness ==
    \E t \in Calls, u \in Calls :
        /\ t # u /\ haystack[t] = haystack[u] /\ needle[t] = needle[u]
        /\ Done(t) /\ ret[t] # NULL /\ ret[t].off >= 1
        /\ pc[u] = "L20" /\ examined[u] # <<>>

\* C10: no byte outside a buffer is read and no size_t operation wraps: a
\* comparison at i has i + needle_len <= haystack_len, the subtraction is
\* reached only with haystack_len >= needle_len >= 1
C10_InBounds ==
    \A t \in Calls :
        /\ ~oob[t]
        /\ ~wrap[t]
        /\ InLoop(t) => (haystack_len[t] >= needle_len[t] /\ needle_len[t] >= 1)
        /\ pc[t] = "L20" =>
              /\ i[Slot(t)].def
              /\ i[Slot(t)].val + needle_len[t] <= haystack_len[t]
              /\ InBounds(PtrAdd(h[t], i[Slot(t)].val), needle_len[t])
              /\ InBounds(n[t], needle_len[t])
        /\ i[Slot(t)].def => i[Slot(t)].val \in SizeT

\* the scan of a haystack of SIZE_MAX bytes ran to the end: i is SIZE_MAX
C10_Witness ==
    \E t \in Calls :
        /\ pc[t] = "L24" /\ haystack_len[t] = Modulus - 1 /\ width >= 2
        /\ i[Slot(t)] = Assigned(Modulus - 1)

====
